---------------------------- MODULE Spec2Model ----------------------------
(***************************************************************************)
(* Model of the signalling relay of src/app/main.py.                       *)
(*                                                                         *)
(* One coroutine (websocket_endpoint) runs per connection on a single      *)
(* asyncio event loop.  A coroutine runs without interruption from one     *)
(* await to the next, so every action below is "finish the await this      *)
(* handler is suspended at, then run its code up to the next await".  The  *)
(* awaits of the source are receive_text (line 51), every send_text        *)
(* (lines 36, 127, 139) and every close (lines 37, 97).                    *)
(*                                                                         *)
(* Python objects are modelled with their identity: `rooms` maps a room id *)
(* to a room object, `heap` holds the room objects, and each handler keeps *)
(* its own reference `room` (line 32), which may outlive the registry      *)
(* entry.  A dict is a sequence of slots in insertion order; deleting a    *)
(* key leaves an empty slot behind, as CPython's dict does, so that an     *)
(* iterator suspended inside a broadcast keeps a meaningful position.      *)
(***************************************************************************)
EXTENDS Integers, Sequences, FiniteSets, TLC

\* Number of connections ever accepted by the server.
MaxConn == 3

\* Number of texts the server receives from its clients in one run, and the
\* number it receives in a run in which all MaxConn connections are accepted.
MaxMsgs == 3
FullMsgs == 1

Conns == 1..MaxConn
RoomIds == {"r1", "r2"}
UserIds == {"A", "B", "C"}

\* Room and user ids are opaque strings that the code only compares for
\* equality, so a run is told up to renaming: ids are taken in this order of
\* first use.
RoomOrder == <<"r1", "r2">>
UserOrder == <<"A", "B", "C">>

\* Python's None, and the null object reference.
None == "None"
Null == 0

VARIABLES
    rooms,      \* line 17: the registry, room id -> room object (Null: absent)
    heap,       \* the room objects: users (dict), host, password, locked
    sock,       \* per connection, its WebSocket: "open", "closed" once the
                \* program has called close() on it, "dropped" once the
                \* transport is gone
    pc,         \* per connection, the await its handler is suspended at
    exc,        \* per connection, the exception that ended its handler
    user_id,    \* line 20: the handler's user_id parameter
    room_id,    \* line 20: the handler's room_id parameter
    room,       \* line 32: the handler's local reference to its room object
    frame,      \* per connection, the locals of the call that is suspended
    admitted,   \* history: the connection passed line 40
    cleanups,   \* history: how often line 151 ran in the connection's handler
    evicted,    \* history: how often line 98 removed the connection's entry
    refused,    \* history: a command failed the host test of line 76, 85 or 93
    received,   \* history: how many texts receive_text has returned
    unrouted,   \* history: send_to_user found no member to relay a text to
    told        \* history: per connection with a running handler, the host
                \* named by the last user-joined or user-left it was sent

vars == <<rooms, heap, sock, pc, exc, user_id, room_id, room, frame,
          admitted, cleanups, evicted, refused, received, unrouted, told>>

-----------------------------------------------------------------------------
(* dict: a sequence of slots [uid, ws]; uid = None marks a deleted slot.   *)
(* The history field since names the connection whose join created the     *)
(* entry; connections are numbered in the order of their joins.            *)

Dummy == [uid |-> None, ws |-> Null, since |-> Null]

LiveSlots(d) == {i \in 1..Len(d) : d[i].uid # None}

Keys(d) == {d[i].uid : i \in LiveSlots(d)}

DictLen(d) == Cardinality(LiveSlots(d))

SlotOf(d, k) == CHOOSE i \in LiveSlots(d) : d[i].uid = k

DictGet(d, k) == d[SlotOf(d, k)].ws

\* d[k] = w: an existing key keeps its slot, a new key is appended.
DictSet(d, k, w) ==
    IF k \in Keys(d)
    THEN [d EXCEPT ![SlotOf(d, k)].ws = w]
    ELSE Append(d, [uid |-> k, ws |-> w, since |-> w])

\* del d[k], for k in d.
DictDel(d, k) == [d EXCEPT ![SlotOf(d, k)] = Dummy]

KeyListFrom(d) == SelectSeq(d, LAMBDA s : s.uid # None)

\* list(d.keys()): the keys in insertion order.
KeyList(d) == [i \in 1..Len(KeyListFrom(d)) |-> KeyListFrom(d)[i].uid]

\* The key inserted last.
LastKey(d) == d[CHOOSE i \in LiveSlots(d) : \A j \in LiveSlots(d) : j <= i].uid

\* next(iter(d)), for non-empty d.
FirstKey(d) == d[CHOOSE i \in LiveSlots(d) : \A j \in LiveSlots(d) : i <= j].uid

-----------------------------------------------------------------------------
(* Texts on the wire.  fmt tells a text produced by json.dumps from one    *)
(* laid out by a client; json tells whether json.loads accepts the text    *)
(* and whether it yields an object.                                        *)

Dumps(v) == [fmt |-> "dumps", json |-> "object", val |-> v]

Get(v, k) == IF k \in DOMAIN v THEN v[k] ELSE None

GetOr(v, k, dflt) == IF k \in DOMAIN v THEN v[k] ELSE dflt

RelayTypes == {"offer", "answer", "ice-candidate"}

\* The commands of lines 75-102.
Privileged == {"set-password", "unlock-room", "kick"}

ErrorEvent == [type |-> "error", message |-> "Room is locked"]
UserJoined(u, ks, h) == [type |-> "user-joined", userId |-> u, users |-> ks, host |-> h]
ChatEvent(u, m) == [type |-> "chat", userId |-> u, message |-> m]
RaiseHandEvent(u) == [type |-> "raise-hand", userId |-> u]
RoomLocked(b) == [type |-> "room-locked", locked |-> b]
KickedEvent == [type |-> "kicked"]
KickLeft(k) == [type |-> "user-left", userId |-> k]
UserLeft(u, h) == [type |-> "user-left", userId |-> u, host |-> h]

\* The JSON objects a client sends.
ClientObjects ==
    {[type |-> t, target |-> x] : t \in RelayTypes, x \in UserIds}
    \cup {[type |-> "offer"]}
    \cup {[type |-> "chat", message |-> "hi"]}
    \cup {[type |-> "raise-hand"]}
    \cup {[type |-> "set-password", password |-> "pw"]}
    \cup {[type |-> "unlock-room"]}
    \cup {[type |-> "kick", kickId |-> x] : x \in UserIds}
    \cup {[type |-> "kick"]}
    \cup {[type |-> t] : t \in {"kicked", "error"}}
    \cup {[message |-> "hi"]}

NoValue == [type |-> None]

\* The texts a client sends: JSON objects in the client's own layout, a JSON
\* value that is no object, and a text that is no JSON at all.
ClientTexts ==
    {[fmt |-> "client", json |-> "object", val |-> v] : v \in ClientObjects}
    \cup {[fmt |-> "client", json |-> "invalid", val |-> NoValue],
          [fmt |-> "client", json |-> "array", val |-> NoValue]}

-----------------------------------------------------------------------------
NoRoom == [users |-> <<>>, host |-> None, password |-> "", locked |-> FALSE]

\* lines 25-30
NewRoom(u) == [users |-> <<>>, host |-> u, password |-> "", locked |-> FALSE]

\* The locals of a suspended call; len is history: the number of slots the
\* dict had when the loop of line 123 began.
NoFrame ==
    [obj |-> Null, pos |-> 0, used |-> 0, len |-> 0, to_remove |-> <<>>,
     text |-> Dumps(NoValue), exclude |-> None, ret |-> "",
     uid |-> None, ws |-> Null, ctx |-> ""]

Init ==
    /\ rooms = [r \in RoomIds |-> Null]
    /\ heap = [o \in Conns |-> NoRoom]
    /\ sock = [c \in Conns |-> "open"]
    /\ pc = [c \in Conns |-> "idle"]
    /\ exc = [c \in Conns |-> ""]
    /\ user_id = [c \in Conns |-> None]
    /\ room_id = [c \in Conns |-> None]
    /\ room = [c \in Conns |-> Null]
    /\ frame = [c \in Conns |-> NoFrame]
    /\ admitted = [c \in Conns |-> FALSE]
    /\ cleanups = [c \in Conns |-> 0]
    /\ evicted = [c \in Conns |-> 0]
    /\ refused = FALSE
    /\ received = 0
    /\ unrouted = FALSE
    /\ told = [c \in Conns |-> None]


-----------------------------------------------------------------------------
(* How a handler moves from one await to the next.  H, G and S are the     *)
(* room objects, the registry and the sockets as the running code has      *)
(* left them.                                                              *)

\* Handler c holds a reference to room object o.
Holds(P, F, c, o) ==
    /\ P[c] \notin {"idle", "done", "crashed"}
    /\ room[c] = o \/ F[c].obj = o

\* Memory management, which no code of the program observes: an object that
\* neither the registry nor a running handler refers to is freed, and the
\* deleted slots of a dict are reclaimed while no iterator is suspended on it.
Collect(H, G, P, F) ==
    [o \in Conns |->
        IF (\A r \in RoomIds : G[r] # o) /\ (\A c \in Conns : ~Holds(P, F, c, o))
        THEN NoRoom
        ELSE IF \E c \in Conns : P[c] = "broadcast_send" /\ F[c].obj = o
        THEN H[o]
        ELSE [H[o] EXCEPT !.users = KeyListFrom(@)]]

\* close() has returned on connection w.
Closed(S, w) == [S EXCEPT ![w] = IF @ = "open" THEN "closed" ELSE @]

\* websocket_endpoint has ended for connection w: the server drops the
\* transport if it is still there.
Ended(S, w) == [S EXCEPT ![w] = IF @ = "open" THEN "dropped" ELSE @]

\* The handler suspends at await p with the locals f, or has returned from
\* websocket_endpoint ("done").
Suspend(c, H, G, S, p, f) ==
    /\ pc' = [pc EXCEPT ![c] = p]
    /\ frame' = [frame EXCEPT ![c] = f]
    /\ heap' = Collect(H, G, pc', frame')
    /\ rooms' = G
    /\ sock' = IF p = "done" THEN Ended(S, c) ELSE S
    /\ UNCHANGED exc

\* The call returns: back to receive_text ("recv") or out of the endpoint ("done").
Resume(c, H, G, S, p) == Suspend(c, H, G, S, p, NoFrame)

\* An exception nothing catches leaves websocket_endpoint.
Raise(c, H, G, S, e) ==
    /\ pc' = [pc EXCEPT ![c] = "crashed"]
    /\ frame' = [frame EXCEPT ![c] = NoFrame]
    /\ heap' = Collect(H, G, pc', frame')
    /\ rooms' = G
    /\ sock' = Ended(S, c)
    /\ exc' = [exc EXCEPT ![c] = e]

\* Handler c calls send_text of line 127 in this step.
StartsSend(c) ==
    /\ pc'[c] = "broadcast_send"
    /\ pc[c] # "broadcast_send" \/ frame'[c] # frame[c]

\* The value of told after a step: a text with a host field that a handler
\* starts to send to an open connection tells that connection the host, and
\* what a connection was told is forgotten when its handler is over.
Told ==
    [w \in Conns |->
        IF pc'[w] \in {"done", "crashed"} THEN None
        ELSE IF \E c \in Conns : /\ StartsSend(c)
                                  /\ frame'[c].ws = w
                                  /\ sock'[w] = "open"
                                  /\ "host" \in DOMAIN frame'[c].text.val
        THEN frame'[CHOOSE c \in Conns : StartsSend(c) /\ frame'[c].ws = w].text.val.host
        ELSE told[w]]

\* A send_text succeeds exactly on a connection that is still open.
SendOk(S, w) == S[w] = "open"

RECURSIVE NextItem(_, _, _)
\* The slot the dict iterator yields next that line 124 does not skip (0: none).
NextItem(d, pos, exclude) ==
    IF pos > Len(d) THEN 0
    ELSE IF d[pos].uid # None /\ d[pos].uid # exclude THEN pos
    ELSE NextItem(d, pos + 1, exclude)

RECURSIVE DelAll(_, _)
\* lines 131-132: del d[uid] for every uid of to_remove; ok is FALSE at a KeyError.
DelAll(d, rm) ==
    IF rm = <<>> THEN [ok |-> TRUE, d |-> d]
    ELSE IF Head(rm) \notin Keys(d) THEN [ok |-> FALSE, d |-> d]
    ELSE DelAll(DictDel(d, Head(rm)), Tail(rm))

\* lines 123-132 from the iterator's next() on: the iterator raises when the
\* dict changed size since the loop began; otherwise the loop runs to its next
\* send, or ends and deletes the failed recipients.
Iterate(c, H, G, S, f) ==
    LET d == H[f.obj].users IN
    IF DictLen(d) # f.used
    THEN Raise(c, H, G, S, "RuntimeError: dictionary changed size")
    ELSE LET i == NextItem(d, f.pos, f.exclude) IN
         IF i # 0
         THEN Suspend(c, H, G, S, "broadcast_send",
                      [f EXCEPT !.pos = i + 1, !.uid = d[i].uid, !.ws = d[i].ws])
         ELSE LET r == DelAll(d, f.to_remove)
                  H2 == [H EXCEPT ![f.obj].users = r.d]
              IN  IF r.ok THEN Resume(c, H2, G, S, f.ret)
                  ELSE Raise(c, H2, G, S, "KeyError")

\* lines 112-123: broadcast(r, text, exclude), called by handler c, which goes
\* on at ret when the call returns.
Broadcast(c, r, H, G, S, text, exclude, ret) ==
    IF G[r] = Null THEN Resume(c, H, G, S, ret)
    ELSE Iterate(c, H, G, S,
                 [NoFrame EXCEPT !.obj = G[r], !.pos = 1,
                                 !.used = DictLen(H[G[r]].users),
                                 !.len = Len(H[G[r]].users),
                                 !.text = text, !.exclude = exclude, !.ret = ret])

\* line 97: room["users"][kick_id] is looked up in the handler's own room and
\* its close() is awaited.
StartClose(c, H, S, kick_id) ==
    LET d == H[room[c]].users IN
    IF kick_id \notin Keys(d) THEN Raise(c, H, rooms, S, "KeyError")
    ELSE Suspend(c, H, rooms, S, "kick_close",
                 [NoFrame EXCEPT !.uid = kick_id, !.ws = DictGet(d, kick_id)])

\* A relay that looks its target up again once send_to_user has returned.
AfterSendToUserLookup(c, H, S, u, ctx) ==
    IF ctx = "relay"
    THEN IF rooms[room_id[c]] # Null /\ u \in Keys(H[rooms[room_id[c]]].users)
         THEN Resume(c, H, rooms, S, "recv")
         ELSE Raise(c, H, rooms, S, "KeyError")
    ELSE StartClose(c, H, S, u)

\* What follows the return of send_to_user: the next receive (line 60), or
\* the close of the kicked connection (line 96).
AfterSendToUser(c, H, S, u, ctx) ==
    IF ctx = "relay" THEN Resume(c, H, rooms, S, "recv")
    ELSE StartClose(c, H, S, u)

\* A lookup that takes the first member whatever the target.
RecipientFirst(H, o, u) == DictGet(H[o].users, FirstKey(H[o].users))

\* The member of room object o that send_to_user(room_id, u, ...) writes to.
Recipient(H, o, u) == DictGet(H[o].users, u)

\* lines 135-139: send_to_user(room_id, u, text) up to its send.
SendToUser(c, H, S, u, text, ctx) ==
    LET o == rooms[room_id[c]] IN
    IF o # Null /\ u \in Keys(H[o].users)
    THEN Suspend(c, H, rooms, S, "unicast_send",
                 [NoFrame EXCEPT !.obj = o, !.uid = u, !.ws = Recipient(H, o, u),
                                 !.text = text, !.ctx = ctx])
    ELSE AfterSendToUser(c, H, S, u, ctx)

-----------------------------------------------------------------------------
(* The handler, one action per await.                                      *)

\* The test of line 35 with the comparison turned round.
JoinRejectedInverted(rm, u) == rm.locked /\ u = rm.host

\* line 35
JoinRejected(rm, u) == rm.locked /\ u # rm.host

\* A host test that asks for membership instead of the host id.
IsMember(rm, u) == u \in Keys(rm.users)

\* lines 76, 85, 93
IsHost(rm, u) == u = rm.host

\* The ids a new connection may name: those seen so far and the next new one.
FirstUses(order, seen) ==
    {order[i] : i \in {j \in 1..Len(order) :
                          \A k \in 1..(j - 1) : order[k] \in seen}}

JoinRooms == FirstUses(RoomOrder, {room_id[b] : b \in Conns})

JoinUsers == FirstUses(UserOrder, {user_id[b] : b \in Conns})

\* lines 21-47: a connection for room r and user u is accepted and joins.
\* Connections are numbered in the order in which they reach line 24, and a
\* room object is named after the connection that created it.
Join(c, r, u) ==
    LET absent == rooms[r] = Null
        o == IF absent THEN c ELSE rooms[r]
        G == [rooms EXCEPT ![r] = o]
        H == IF absent THEN [heap EXCEPT ![o] = NewRoom(u)] ELSE heap
        H2 == [H EXCEPT ![o].users = DictSet(@, u, c)]
    IN  /\ pc[c] = "idle"
        /\ \A b \in Conns : b < c => pc[b] # "idle"
        /\ r \in JoinRooms
        /\ u \in JoinUsers
        /\ c = MaxConn => received <= FullMsgs
        /\ user_id' = [user_id EXCEPT ![c] = u]
        /\ room_id' = [room_id EXCEPT ![c] = r]
        /\ room' = [room EXCEPT ![c] = o]
        /\ UNCHANGED <<cleanups, evicted, refused, received, unrouted>>
        /\ IF JoinRejected(H[o], u)
           THEN /\ Suspend(c, H, G, sock, "reject_send",
                           [NoFrame EXCEPT !.ws = c, !.text = Dumps(ErrorEvent)])
                /\ UNCHANGED admitted
           ELSE /\ Broadcast(c, r, H2, G, sock,
                             Dumps(UserJoined(u, KeyList(H2[o].users), H2[o].host)),
                             None, "recv")
                /\ admitted' = [admitted EXCEPT ![c] = TRUE]
        /\ told' = Told

\* line 36 completes: the error reached the joiner, or send_text raised.
RejectSendDone(c) ==
    /\ pc[c] = "reject_send"
    /\ IF SendOk(sock, c)
       THEN Suspend(c, heap, rooms, sock, "reject_close", frame[c])
       ELSE Raise(c, heap, rooms, sock, "SendError")
    /\ UNCHANGED <<user_id, room_id, room, admitted, cleanups, evicted, refused, received, unrouted>>
    /\ told' = Told

\* close() of connection w: it closes an open connection and raises
\* RuntimeError on one the server closed before; on one the client dropped it
\* returns, raises an error or raises WebSocketDisconnect, as the server's
\* transport decides.
CloseOutcomes(S, w) ==
    CASE S[w] = "open" -> {"ok"}
      [] S[w] = "closed" -> {"error"}
      [] OTHER -> {"ok", "error", "disconnect"}

\* lines 37-38 complete.
RejectCloseDone(c, how) ==
    /\ pc[c] = "reject_close"
    /\ how \in CloseOutcomes(sock, c)
    /\ IF how = "ok" THEN Resume(c, heap, rooms, Closed(sock, c), "done")
       ELSE Raise(c, heap, rooms, sock, "CloseError")
    /\ UNCHANGED <<user_id, room_id, room, admitted, cleanups, evicted, refused, received, unrouted>>
    /\ told' = Told

\* line 127 completes (lines 126-132).
BroadcastSendDone(c) ==
    LET f == frame[c]
        f2 == IF SendOk(sock, f.ws) THEN f
              ELSE [f EXCEPT !.to_remove = Append(@, f.uid)]
    IN  /\ pc[c] = "broadcast_send"
        /\ Iterate(c, heap, rooms, sock, [f2 EXCEPT !.uid = None, !.ws = Null])
        /\ told' = Told
        /\ UNCHANGED <<user_id, room_id, room, admitted, cleanups, evicted, refused, received, unrouted>>

\* line 139 completes (lines 138-141), and the caller goes on.
UnicastSendDone(c) ==
    LET f == frame[c] IN
    /\ pc[c] = "unicast_send"
    /\ IF SendOk(sock, f.ws)
       THEN AfterSendToUser(c, heap, sock, f.uid, f.ctx)
       ELSE IF f.uid \notin Keys(heap[f.obj].users)
       THEN Raise(c, heap, rooms, sock, "KeyError")
       ELSE AfterSendToUser(c, [heap EXCEPT ![f.obj].users = DictDel(@, f.uid)],
                            sock, f.uid, f.ctx)
    /\ UNCHANGED <<user_id, room_id, room, admitted, cleanups, evicted, refused, received, unrouted>>
    /\ told' = Told

\* lines 148-165: handle_disconnect(room_id, user_id).
HandleDisconnect(c) ==
    LET r == room_id[c]
        u == user_id[c]
        o == rooms[r]
        d == DictDel(heap[o].users, u)
        H == [heap EXCEPT ![o].users = d]
        H2 == [H EXCEPT ![o].host = FirstKey(d)]
    IN  IF o # Null /\ u \in Keys(heap[o].users)
        THEN /\ cleanups' = [cleanups EXCEPT ![c] = @ + 1]
             /\ IF u = heap[o].host
                THEN IF DictLen(d) > 0
                     THEN Broadcast(c, r, H2, rooms, sock,
                                    Dumps(UserLeft(u, H2[o].host)), None, "done")
                     ELSE Resume(c, H, [rooms EXCEPT ![r] = Null], sock, "done")
                ELSE Broadcast(c, r, H, rooms, sock,
                               Dumps(UserLeft(u, H[o].host)), None, "done")
        ELSE /\ Resume(c, heap, rooms, sock, "done")
             /\ UNCHANGED cleanups

\* line 97 completes, then lines 98-102; a WebSocketDisconnect raised by
\* close() is caught at line 108.
KickCloseDone(c, how) ==
    LET f == frame[c]
        d == heap[room[c]].users
        S == Closed(sock, f.ws)
    IN  /\ pc[c] = "kick_close"
        /\ how \in CloseOutcomes(sock, f.ws)
        /\ CASE how = "error" ->
                    /\ Raise(c, heap, rooms, sock, "CloseError")
                    /\ UNCHANGED <<cleanups, evicted>>
             [] how = "disconnect" ->
                    /\ HandleDisconnect(c)
                    /\ UNCHANGED evicted
             [] OTHER ->
                    IF f.uid \notin Keys(d)
                    THEN /\ Raise(c, heap, rooms, S, "KeyError")
                         /\ UNCHANGED <<cleanups, evicted>>
                    ELSE /\ Broadcast(c, room_id[c],
                                 [heap EXCEPT ![room[c]].users = DictDel(@, f.uid)],
                                 rooms, S, Dumps(KickLeft(f.uid)), None, "recv")
                         /\ evicted' = [evicted EXCEPT ![DictGet(d, f.uid)] = @ + 1]
                         /\ UNCHANGED cleanups
        /\ UNCHANGED <<user_id, room_id, room, admitted, refused, received, unrouted>>
        /\ told' = Told

\* The texts the run may still receive.
Quota == IF pc[MaxConn] = "idle" THEN MaxMsgs ELSE FullMsgs

\* lines 51-106: a text arrives and is routed.
Recv(c, text) ==
    LET data == text.val
        msg_type == Get(data, "type")
        target == Get(data, "target")
        kick_id == Get(data, "kickId")
        u == user_id[c]
        r == room_id[c]
        rm == heap[room[c]]
    IN  /\ pc[c] = "recv"
        /\ sock[c] = "open"
        /\ received < Quota
        /\ received' = received + 1
        /\ refused' = (refused \/ (text.json = "object" /\ msg_type \in Privileged
                                     /\ u # rm.host))
        /\ unrouted' = (unrouted \/ (/\ text.json = "object"
                                      /\ msg_type \in RelayTypes
                                      /\ \/ rooms[r] = Null
                                         \/ target \notin Keys(heap[rooms[r]].users)))
        /\ UNCHANGED <<user_id, room_id, room, admitted, cleanups, evicted>>
        /\ CASE text.json = "invalid" ->
                    Raise(c, heap, rooms, sock, "JSONDecodeError")
             [] text.json = "array" ->
                    Raise(c, heap, rooms, sock, "AttributeError")
             [] OTHER ->
                CASE msg_type \in RelayTypes ->
                        SendToUser(c, heap, sock, target, text, "relay")
                  [] msg_type = "chat" ->
                        Broadcast(c, r, heap, rooms, sock,
                                  Dumps(ChatEvent(u, Get(data, "message"))),
                                  None, "recv")
                  [] msg_type = "raise-hand" ->
                        Broadcast(c, r, heap, rooms, sock,
                                  Dumps(RaiseHandEvent(u)), None, "recv")
                  [] msg_type = "set-password" ->
                        IF IsHost(rm, u)
                        THEN Broadcast(c, r,
                                 [heap EXCEPT ![room[c]].password =
                                                  GetOr(data, "password", ""),
                                              ![room[c]].locked = TRUE],
                                 rooms, sock, Dumps(RoomLocked(TRUE)), None, "recv")
                        ELSE Resume(c, heap, rooms, sock, "recv")
                  [] msg_type = "unlock-room" ->
                        IF IsHost(rm, u)
                        THEN Broadcast(c, r,
                                 [heap EXCEPT ![room[c]].locked = FALSE],
                                 rooms, sock, Dumps(RoomLocked(FALSE)), None, "recv")
                        ELSE Resume(c, heap, rooms, sock, "recv")
                  [] msg_type = "kick" ->
                        IF IsHost(rm, u) /\ kick_id \in Keys(rm.users)
                        THEN SendToUser(c, heap, sock, kick_id,
                                        Dumps(KickedEvent), "kick")
                        ELSE Resume(c, heap, rooms, sock, "recv")
                  [] OTHER ->
                        Broadcast(c, r, heap, rooms, sock, Dumps(data), u, "recv")
        /\ told' = Told

\* line 51 raises WebSocketDisconnect (lines 108-109): the client dropped the
\* connection, or the program closed it.
RecvDisconnect(c) ==
    /\ pc[c] = "recv"
    /\ sock[c] # "open"
    /\ HandleDisconnect(c)
    /\ UNCHANGED <<user_id, room_id, room, admitted, evicted, refused, received, unrouted>>
    /\ told' = Told

\* line 51 raises another error: receive_text is called on a WebSocket that
\* the program itself has closed.
RecvError(c) ==
    /\ pc[c] = "recv"
    /\ sock[c] = "closed"
    /\ Raise(c, heap, rooms, sock, "RuntimeError: not connected")
    /\ UNCHANGED <<user_id, room_id, room, admitted, cleanups, evicted, refused, received, unrouted>>
    /\ told' = Told

\* The client end of a live connection goes away.
ClientDrop(c) ==
    /\ pc[c] \notin {"idle", "done", "crashed"}
    /\ sock[c] = "open"
    /\ sock' = [sock EXCEPT ![c] = "dropped"]
    /\ UNCHANGED <<rooms, heap, pc, exc, user_id, room_id, room, frame,
                   admitted, cleanups, evicted, refused, received, unrouted, told>>

Next ==
    \/ \E c \in Conns, r \in RoomIds, u \in UserIds : Join(c, r, u)
    \/ \E c \in Conns : RejectSendDone(c)
    \/ \E c \in Conns, how \in {"ok", "error", "disconnect"} : RejectCloseDone(c, how)
    \/ \E c \in Conns : BroadcastSendDone(c)
    \/ \E c \in Conns : UnicastSendDone(c)
    \/ \E c \in Conns, how \in {"ok", "error", "disconnect"} : KickCloseDone(c, how)
    \/ \E c \in Conns, text \in ClientTexts : Recv(c, text)
    \/ \E c \in Conns : RecvDisconnect(c)
    \/ \E c \in Conns : RecvError(c)
    \/ \E c \in Conns : ClientDrop(c)

Spec == Init /\ [][Next]_vars

-----------------------------------------------------------------------------
(* Properties.                                                             *)

Members(r) == Keys(heap[rooms[r]].users)

TypeOf(text) == Get(text.val, "type")

Sending(c) == pc[c] \in {"reject_send", "broadcast_send", "unicast_send"}

\* Connection c is the one registered under its user id in the room of the
\* registry that its handler works on.
MemberConn(c) ==
    /\ pc[c] \notin {"idle", "done", "crashed"}
    /\ rooms[room_id[c]] = room[c]
    /\ user_id[c] \in Keys(heap[room[c]].users)
    /\ DictGet(heap[room[c]].users, user_id[c]) = c

\* The member whose entry is the oldest, by the connection that created it.
Earliest(d) ==
    d[CHOOSE i \in LiveSlots(d) : \A j \in LiveSlots(d) : d[i].since <= d[j].since].uid

\* C1: every room of the registry that has members has its host among them.
C1_HostIsMember ==
    \A r \in RoomIds :
        (rooms[r] # Null /\ Members(r) # {}) => heap[rooms[r]].host \in Members(r)

\* C2: every room of the registry has at least one member.
C2_RoomHasMember ==
    \A r \in RoomIds : rooms[r] # Null => Members(r) # {}

\* The step leaves the registry and every room registered in it as they were.
RegistryUnchanged ==
    /\ rooms' = rooms
    /\ \A r \in RoomIds : rooms[r] # Null => heap'[rooms[r]] = heap[rooms[r]]

\* C3: a join to a locked room under an id other than the host's sends the
\* joiner an error and nothing to anyone else, leaves every room as it was,
\* never makes the joiner a member, and goes on to close the joiner's
\* connection.
C3_LockedJoinRejected ==
    [][\A c \in Conns :
          /\ (/\ pc[c] = "idle"
              /\ pc'[c] # "idle"
              /\ rooms[room_id'[c]] # Null
              /\ heap[rooms[room_id'[c]]].locked
              /\ user_id'[c] # heap[rooms[room_id'[c]]].host)
             => (/\ pc'[c] = "reject_send"
                 /\ frame'[c].text = Dumps(ErrorEvent)
                 /\ frame'[c].ws = c
                 /\ RegistryUnchanged
                 /\ ~admitted'[c]
                 /\ \A b \in Conns \ {c} : pc'[b] = pc[b] /\ frame'[b] = frame[b])
          /\ (pc[c] = "reject_send" /\ pc'[c] # "reject_send")
             => (/\ RegistryUnchanged
                 /\ pc'[c] = IF sock[c] = "open" THEN "reject_close" ELSE "crashed"
                 /\ pc'[c] = "crashed" => sock'[c] # "open")
          /\ (pc[c] = "reject_close" /\ pc'[c] # "reject_close")
             => (/\ RegistryUnchanged
                 /\ pc'[c] \in {"done", "crashed"}
                 /\ sock'[c] # "open"
                 /\ ~admitted'[c])
      ]_vars

\* A joiner has been refused by a locked room and its close is under way.
C3_Witness ==
    \E c \in Conns :
        /\ pc[c] = "reject_close"
        /\ heap[room[c]].locked
        /\ user_id[c] \notin Keys(heap[room[c]].users)

\* C4: when handle_disconnect removes the host and members remain, the new
\* host is the remaining member whose entry was created first.
C4_PromotesEarliest ==
    [][\A c \in Conns :
          (/\ cleanups'[c] = cleanups[c] + 1
           /\ user_id[c] = heap[rooms[room_id[c]]].host
           /\ Members(room_id[c]) \ {user_id[c]} # {})
          => (/\ rooms'[room_id[c]] = rooms[room_id[c]]
              /\ Keys(heap'[rooms[room_id[c]]].users)
                    = Members(room_id[c]) \ {user_id[c]}
              /\ heap'[rooms[room_id[c]]].host
                    = Earliest(heap'[rooms[room_id[c]]].users))
      ]_vars

\* A, B and C joined the room A created, A has left, and B is the host.
C4_Witness ==
    /\ rooms["r1"] = 1
    /\ KeyList(heap[1].users) = <<"B", "C">>
    /\ heap[1].host = "B"

\* C5: once the handler of an admitted connection has ended, the cleanup
\* path has run exactly once for that connection.
C5_CleanupOnce ==
    \A c \in Conns :
        (admitted[c] /\ pc[c] \in {"done", "crashed"})
            => cleanups[c] + evicted[c] = 1

\* C6: a text that is no JSON, or no JSON object, leaves its sender in the
\* message loop and a member, and every room as it was.
C6_MalformedFailsOnlyMessage ==
    [][\A c \in Conns : \A text \in ClientTexts :
          (text.json # "object" /\ Recv(c, text))
          => (pc'[c] = "recv" /\ heap' = heap /\ rooms' = rooms)
      ]_vars

\* C7: once the host has begun to kick another member, the notice is
\* followed by the close of that member's connection, and the close by the
\* removal of the member and the user-left broadcast to those who remain,
\* whether the notice could be sent or not.
C7_KickSequence ==
    [][\A c \in Conns :
          /\ (/\ pc[c] = "unicast_send"
              /\ frame[c].ctx = "kick"
              /\ frame[c].uid # user_id[c]
              /\ pc'[c] # "unicast_send")
             => (/\ pc'[c] = "kick_close"
                 /\ frame'[c].uid = frame[c].uid)
          /\ (/\ pc[c] = "kick_close"
              /\ frame[c].uid # user_id[c]
              /\ pc'[c] # "kick_close")
             => (/\ sock'[frame[c].ws] # "open"
                 /\ frame[c].uid \notin Keys(heap'[room[c]].users)
                 /\ Keys(heap'[room[c]].users) # {}
                    => (/\ pc'[c] = "broadcast_send"
                        /\ frame'[c].text = Dumps(KickLeft(frame[c].uid))))
      ]_vars

\* C8: set-password, unlock-room or kick from a connection whose user id is
\* not its room's host changes no room, sends nothing, closes nothing and
\* leaves the sender in its message loop.
C8_NonHostCommandIgnored ==
    [][\A c \in Conns : \A text \in ClientTexts :
          (/\ text.json = "object"
           /\ TypeOf(text) \in Privileged
           /\ pc[c] = "recv"
           /\ user_id[c] # heap[room[c]].host
           /\ Recv(c, text))
          => UNCHANGED <<rooms, heap, sock, pc, frame, exc>>
      ]_vars

\* A command of a member that is not the host has been refused.
C8_Witness ==
    /\ refused
    /\ \E c \in Conns :
          /\ pc[c] = "recv"
          /\ MemberConn(c)
          /\ user_id[c] # heap[room[c]].host

\* C9: an offer, answer or ice-candidate is written, as the text that was
\* received, to the connection registered under its target in the room
\* registered under the sender's room id, and to no other connection; no
\* other handler starts a send and no room changes.
C9_RelayOnlyToTarget ==
    [][\A c \in Conns : \A text \in ClientTexts :
          (/\ text.json = "object"
           /\ TypeOf(text) \in RelayTypes
           /\ Recv(c, text))
          => (/\ heap' = heap /\ rooms' = rooms
              /\ \A b \in Conns \ {c} : pc'[b] = pc[b] /\ frame'[b] = frame[b]
              /\ IF /\ rooms[room_id[c]] # Null
                    /\ Get(text.val, "target") \in Members(room_id[c])
                 THEN /\ pc'[c] = "unicast_send"
                      /\ frame'[c].text = text
                      /\ frame'[c].ws = DictGet(heap[rooms[room_id[c]]].users,
                                                Get(text.val, "target"))
                 ELSE pc'[c] = "recv")
      ]_vars

\* A relays to B while C is a member of the same room.
C9_Witness ==
    \E c \in Conns :
        /\ pc[c] = "unicast_send"
        /\ frame[c].ctx = "relay"
        /\ frame[c].ws # c
        /\ DictLen(heap[frame[c].obj].users) = 3

\* C10: the handler of a member writes a text of type kicked only as the
\* notice of a kick, and never a text of type error.
C10_KickedAndErrorOnlyFromServer ==
    \A c \in Conns :
        (Sending(c) /\ MemberConn(c)) =>
            /\ TypeOf(frame[c].text) = "kicked"
                  => (pc[c] = "unicast_send" /\ frame[c].ctx = "kick")
            /\ TypeOf(frame[c].text) # "error"

\* The handler of connection c has returned or has been ended by an exception.
Over(p) == p \in {"done", "crashed"}

\* C11: when the handler of a member ends its message loop while another
\* member remains in the room, it has removed its member and starts the
\* user-left broadcast that carries its user id and the host the room now has;
\* a kick that removes a member starts a user-left with the same two fields.
C11_UserLeftOnTermination ==
    [][\A c \in Conns :
          /\ (/\ MemberConn(c)
              /\ pc[c] = "recv"
              /\ pc'[c] # "recv"
              /\ Over(pc'[c]) \/ frame'[c].ret = "done"
              /\ rooms'[room_id[c]] # Null
              /\ Keys(heap'[rooms'[room_id[c]]].users) \ {user_id[c]} # {})
             => (/\ pc'[c] = "broadcast_send"
                 /\ user_id[c] \notin Keys(heap'[rooms'[room_id[c]]].users)
                 /\ frame'[c].text =
                       Dumps(UserLeft(user_id[c], heap'[rooms'[room_id[c]]].host)))
          /\ (/\ pc[c] = "kick_close"
              /\ evicted' # evicted
              /\ pc'[c] = "broadcast_send")
             => frame'[c].text =
                   Dumps(UserLeft(frame[c].uid, heap'[frame'[c].obj].host))
      ]_vars

\* The elements of a sequence.
Range(s) == {s[i] : i \in 1..Len(s)}

\* The members named in a user-joined text that the pass of frame f over the
\* dict d has not reached.
Unreached(d, f) ==
    {d[i].uid : i \in {j \in LiveSlots(d) : j >= f.pos}}
        \cap Range(f.text.val.users)

\* C12: an admitted join makes the joiner a member under its connection, in
\* a new unlocked room of which it is the host if the room id was absent, and
\* starts a user-joined broadcast with the member ids in join order and the
\* host; the broadcast ends only when every member it lists has been sent it.
C12_JoinAnnounced ==
    [][\A c \in Conns :
          /\ (pc[c] = "idle" /\ admitted'[c])
             => LET o == rooms'[room_id'[c]]
                    d == heap'[o].users
                IN  /\ o # Null
                    /\ rooms[room_id'[c]] = Null
                          => (heap'[o].host = user_id'[c] /\ ~heap'[o].locked
                              /\ KeyList(d) = <<user_id'[c]>>)
                    /\ DictGet(d, user_id'[c]) = c
                    /\ pc'[c] = "broadcast_send"
                    /\ frame'[c].text =
                          Dumps(UserJoined(user_id'[c], KeyList(d), heap'[o].host))
                    /\ frame'[c].exclude = None
                    /\ frame'[c].ws = DictGet(d, FirstKey(d))
          /\ (/\ pc[c] = "broadcast_send"
              /\ TypeOf(frame[c].text) = "user-joined"
              /\ pc'[c] # "broadcast_send")
             => Unreached(heap[frame[c].obj].users, frame[c]) = {}
      ]_vars

\* C13: while the broadcast pass of a handler is suspended at a send, a step
\* of another handler leaves the members of the room of that pass as they
\* are, and no handler is ended by its dict iterator.
C13_RoomOperationsSerialized ==
    [][\A c \in Conns :
          /\ (/\ pc[c] = "broadcast_send"
              /\ pc'[c] = "broadcast_send"
              /\ frame'[c] = frame[c])
             => heap'[frame[c].obj].users = heap[frame[c].obj].users
          /\ exc'[c] # "RuntimeError: dictionary changed size"
      ]_vars

\* No broadcast pass is under way.
Quiet == \A c \in Conns : pc[c] # "broadcast_send"

C15_PeerFailureIsolated ==
    [][\A c \in Conns :
          (/\ pc[c] \in {"broadcast_send", "unicast_send", "kick_close"}
           /\ pc[c] = "broadcast_send"
                 => DictLen(heap[frame[c].obj].users) = frame[c].used
           /\ frame[c].ws # c
           /\ frame[c].uid # user_id[c]
           /\ sock[frame[c].ws] # "open"
           /\ sock[c] = "open"
           /\ pc'[c] # pc[c] \/ frame'[c] # frame[c])
          => pc'[c] # "crashed"
      ]_vars

\* The members that were in the dict d when the pass of frame f began, are
\* still in it, and that the pass has neither reached nor is to skip.
Missed(d, f) ==
    {d[i].uid : i \in {j \in LiveSlots(d) : j >= f.pos /\ j <= f.len}}
        \ {f.exclude}

\* The room object o as the clients can observe it.
RoomState(H, o) ==
    [users |-> KeyList(H[o].users), host |-> H[o].host,
     locked |-> H[o].locked, password |-> H[o].password]

\* C16: unlock-room from the host of a room that is not locked leaves the
\* members, host, locked and password of the room as they are and starts a
\* broadcast of room-locked with locked false, and that broadcast ends only
\* when every member has been sent it.
C16_UnlockIdempotent ==
    [][\A c \in Conns :
          /\ \A text \in ClientTexts :
                (/\ text.json = "object"
                 /\ TypeOf(text) = "unlock-room"
                 /\ pc[c] = "recv"
                 /\ MemberConn(c)
                 /\ user_id[c] = heap[room[c]].host
                 /\ ~heap[room[c]].locked
                 /\ Recv(c, text))
                => (/\ RoomState(heap', room[c]) = RoomState(heap, room[c])
                    /\ pc'[c] = "broadcast_send"
                    /\ frame'[c].text = Dumps(RoomLocked(FALSE))
                    /\ frame'[c].exclude = None
                    /\ frame'[c].ws = DictGet(heap[room[c]].users,
                                             FirstKey(heap[room[c]].users)))
          /\ (/\ pc[c] = "broadcast_send"
              /\ frame[c].text = Dumps(RoomLocked(FALSE))
              /\ pc'[c] # "broadcast_send")
             => Missed(heap[frame[c].obj].users, frame[c]) = {}
      ]_vars

\* The recipients whose send has failed in the pass of handler c, the one
\* whose send is pending included if its connection is not open.
Failed(c) ==
    Range(frame[c].to_remove)
        \cup (IF sock[frame[c].ws] # "open" THEN {frame[c].uid} ELSE {})

\* C17: a broadcast pass of a live connection in which a send has failed,
\* over a room that no member has been added to since the pass began, changes
\* neither host, locked nor password, and when it ends it has sent the text
\* to every other member it was to reach, has removed the recipients whose
\* send failed, and returns to its caller without starting a user-left
\* broadcast.
C17_FailedSendRemovesRecipient ==
    [][\A c \in Conns :
          (/\ pc[c] = "broadcast_send"
           /\ Failed(c) # {}
           /\ sock[c] = "open"
           /\ Len(heap[frame[c].obj].users) = frame[c].len
           /\ pc'[c] # pc[c] \/ frame'[c] # frame[c])
          => LET o == frame[c].obj IN
             /\ heap'[o].host = heap[o].host
             /\ heap'[o].locked = heap[o].locked
             /\ heap'[o].password = heap[o].password
             /\ pc'[c] # "broadcast_send"
                   => (/\ pc'[c] = frame[c].ret
                       /\ Failed(c) \cap Keys(heap'[o].users) = {}
                       /\ Missed(heap[o].users, frame[c]) = {})
      ]_vars

\* C18: an offer, answer or ice-candidate whose target is absent from the
\* text or is no member of the room registered under the sender's room id
\* starts no send, changes no room, no connection and no other handler, and
\* leaves the sender at its next receive.
C18_RelayToAbsentTargetDropped ==
    [][\A c \in Conns : \A text \in ClientTexts :
          (/\ text.json = "object"
           /\ TypeOf(text) \in RelayTypes
           /\ pc[c] = "recv"
           /\ \/ rooms[room_id[c]] = Null
              \/ Get(text.val, "target") \notin Members(room_id[c])
           /\ Recv(c, text))
          => (/\ pc'[c] = "recv"
              /\ UNCHANGED <<rooms, heap, sock, pc, frame, exc>>)
      ]_vars

\* A relay found no member to go to, and its sender, a member beside
\* another member, is at its next receive.
C18_Witness ==
    /\ unrouted
    /\ \E c \in Conns :
          /\ pc[c] = "recv"
          /\ MemberConn(c)
          /\ DictLen(heap[room[c]].users) >= 2

\* The types of the texts that only the server composes for a broadcast.
ServerTypes == {"user-joined", "user-left", "room-locked"}

\* C19: a chat or raise-hand text from a member starts a broadcast, over the
\* member's own room and from its first member on, of the event with the
\* sender's user id, the sender not excluded; a text of a type that no branch
\* handles starts a broadcast of the same JSON value over the same room with
\* only the sender excluded; and such a broadcast ends only when every member
\* it was to reach has been sent the text.
C19_ChatAndFallbackBroadcast ==
    [][\A c \in Conns :
          /\ \A text \in ClientTexts :
                (/\ text.json = "object"
                 /\ TypeOf(text) \notin RelayTypes \cup Privileged
                 /\ pc[c] = "recv"
                 /\ MemberConn(c)
                 /\ Recv(c, text))
                => LET d == heap[room[c]].users
                       u == user_id[c]
                       known == TypeOf(text) \in {"chat", "raise-hand"}
                       first == NextItem(d, 1, IF known THEN None ELSE u)
                   IN  /\ RoomState(heap', room[c]) = RoomState(heap, room[c])
                       /\ first = 0 => pc'[c] = "recv"
                       /\ first # 0 =>
                             /\ pc'[c] = "broadcast_send"
                             /\ frame'[c].obj = room[c]
                             /\ frame'[c].ws = d[first].ws
                             /\ frame'[c].exclude = (IF known THEN None ELSE u)
                             /\ frame'[c].text.val =
                                   CASE TypeOf(text) = "chat" ->
                                            ChatEvent(u, Get(text.val, "message"))
                                     [] TypeOf(text) = "raise-hand" ->
                                            RaiseHandEvent(u)
                                     [] OTHER -> text.val
          /\ (/\ pc[c] = "broadcast_send"
              /\ frame[c].ret = "recv"
              /\ TypeOf(frame[c].text) \notin ServerTypes
              /\ pc'[c] # "broadcast_send")
             => Missed(heap[frame[c].obj].users, frame[c]) = {}
      ]_vars

\* C20: a connection admitted under a user id is the one registered under
\* that id, and when handle_disconnect runs for an older connection of the
\* same user id and room, the newer connection, still open, stays registered
\* and the room keeps its registry entry and its host.
C20_DuplicateIdLastWriterWins ==
    [][\A c1, c2 \in Conns :
          /\ (pc[c2] = "idle" /\ admitted'[c2])
             => DictGet(heap'[rooms'[room_id'[c2]]].users, user_id'[c2]) = c2
          /\ (/\ c1 < c2
              /\ MemberConn(c2)
              /\ sock[c2] = "open"
              /\ user_id[c1] = user_id[c2]
              /\ room_id[c1] = room_id[c2]
              /\ cleanups'[c1] = cleanups[c1] + 1)
             => (/\ rooms'[room_id[c2]] = rooms[room_id[c2]]
                 /\ user_id[c2] \in Keys(heap'[room[c2]].users)
                 /\ DictGet(heap'[room[c2]].users, user_id[c2]) = c2
                 /\ heap'[room[c2]].host = heap[room[c2]].host)
      ]_vars

=============================================================================
